---- MODULE Spec2Model ----
(***************************************************************************)
(* A model of the self-drive traffic simulation: the main loop of main.py, *)
(* Car.update (car.py) and TrafficControl (traffic_control.py).            *)
(*                                                                         *)
(* Units.  Lengths and speeds are fixed-point integers in hundredths of a  *)
(* world unit (x = 1000 is the float 10.0, speed = 50 is 0.5); headings    *)
(* are whole degrees; wall-clock time is in whole seconds; a lane's wait   *)
(* time is in tenths (the code adds 0.1 per call).  Arithmetic is that of  *)
(* the reals: the rounding of the binary floats is not modelled.           *)
(*                                                                         *)
(* The two neural networks are black boxes: CarBrain.get_action returns    *)
(* any pair in (-1, 1) x (-1, 1) and TrafficControllerBrain.get_action     *)
(* samples any of the four phases, so their outputs are drawn with \E from *)
(* AccelOut, SteerOut and Phases.                                          *)
(***************************************************************************)
EXTENDS Integers, Sequences, FiniteSets, TLC

VARIABLES
    cars,            \* main.py `cars`: the list of Car objects (records)
    tc,              \* main.py `traffic_controller`: the TrafficControl object
    now,             \* the value time.time() returns, in seconds
    frame_count,     \* main.py `frame_count`
    pc,              \* position in the body of the main loop
    i,               \* index of the for loop over `cars` (1-based)
    cars_to_remove,  \* main.py `cars_to_remove` (1-based indices)
    ticks,           \* history: loop iterations completed since the initial state
    snapshot,        \* history: inside the for loop over cars, `cars` as it was when the loop began
    queried,         \* history: did the last TrafficControl.update call the policy
    keys,            \* history: KEYDOWN events handled since the initial state
    queries          \* history: the stop-decision queries made by StopQuery

vars == <<cars, tc, now, frame_count, pc, i, cars_to_remove,
          ticks, snapshot, queried, keys, queries>>

(***************************************************************************)
(* Bounds of the model.                                                    *)
(***************************************************************************)
\* Loop iterations explored from an initial state.
MaxTicks == 2
\* The SPACE key adds a car only while the list is shorter than this.
MaxCars == 6
\* Key presses (SPACE, R) handled in one run.
MaxKeys == 1
MaxHeldTicks == 1220

(***************************************************************************)
(* Program constants (lengths and speeds in hundredths).                   *)
(***************************************************************************)
initial_cars == 5
WIDTH == 100000
HEIGHT == 80000
road_width == 6000
car_width == 1000
max_speed == 500
max_stuck_time == 120
position_check_interval == 10
stuck_distance == 200
forward_bias == 10
min_motion == 50
signal_brake == 50
arrival_radius == 5000
car_signal_radius == 8000
controller_signal_radius == 10000
stats_radius == 20000
min_phase_duration == 5
wait_step == 1
spawn_interval == 300
spawn_cap == 15
sensor_range == 15000
ray_step == 2
cone_half_angle == 15

\* The four phases of traffic_control.py:16-21.
Phases == 0..3

\* Outputs of CarBrain.get_action, in hundredths: tanh keeps both in (-1, 1).
AccelOut == {-90, 90}
SteerOut == {0}

\* Seconds that one iteration of the main loop may take (clock.tick(60) only
\* bounds it from below).
FrameSeconds == {4, 5}

Abs(n) == IF n < 0 THEN -n ELSE n
Max(a, b) == IF a >= b THEN a ELSE b
Min(a, b) == IF a <= b THEN a ELSE b

\* math.sqrt(dx**2 + dy**2) < r, without leaving the 32-bit integers.
DistLT(dx, dy, r) ==
    /\ Abs(dx) < r
    /\ Abs(dy) < r
    /\ dx * dx + dy * dy < r * r

\* math.sqrt(dx**2 + dy**2) > r.
DistGT(dx, dy, r) ==
    \/ Abs(dx) > r
    \/ Abs(dy) > r
    \/ dx * dx + dy * dy > r * r

\* int(v) of a float, as pygame's Rect applies it to the coordinates it is given:
\* truncation toward zero, here from hundredths to whole units.
TruncUnit(v) == IF v >= 0 THEN v \div 100 ELSE -((-v) \div 100)

\* math.cos / math.sin of a heading in degrees, for headings on the axes.
CosDeg(a) ==
    CASE a % 360 = 0 -> 1
      [] a % 360 = 90 -> 0
      [] a % 360 = 180 -> -1
      [] a % 360 = 270 -> 0

SinDeg(a) ==
    CASE a % 360 = 0 -> 0
      [] a % 360 = 90 -> 1
      [] a % 360 = 180 -> 0
      [] a % 360 = 270 -> -1

\* abs(math.cos(math.radians(angle))) < 0.5 for a heading in whole degrees:
\* the heading is within 30 degrees of the vertical.  (At the multiples of 60
\* the float cosine rounds to either side of 0.5; no such heading is drawn.)
is_north_south(angle) == (angle % 180) \in 61..119

(***************************************************************************)
(* environment.py                                                          *)
(***************************************************************************)
\* Rect.collidepoint: left <= x < left + width and top <= y < top + height.
collidepoint(left, top, w, h, x, y) ==
    /\ left <= TruncUnit(x)
    /\ TruncUnit(x) < left + w
    /\ top <= TruncUnit(y)
    /\ TruncUnit(y) < top + h

is_on_road(x, y) ==
    \/ collidepoint(0, (HEIGHT \div 2 - road_width \div 2) \div 100,
                    WIDTH \div 100, road_width \div 100, x, y)
    \/ collidepoint((WIDTH \div 2 - road_width \div 2) \div 100, 0,
                    road_width \div 100, HEIGHT \div 100, x, y)

is_colliding_with_wall(x, y) == ~is_on_road(x, y)

get_nearest_intersection == <<WIDTH \div 2, HEIGHT \div 2>>

\* (x, y, angle) of the four entry points.
entry_points ==
    << <<1000, HEIGHT \div 2 - road_width \div 4, 0>>,
       <<WIDTH - 1000, HEIGHT \div 2 + road_width \div 4, 180>>,
       <<WIDTH \div 2 - road_width \div 4, 1000, 90>>,
       <<WIDTH \div 2 + road_width \div 4, HEIGHT - 1000, 270>> >>

\* (x, y) of the four exit points.
exit_points ==
    << <<WIDTH - 1000, HEIGHT \div 2 - road_width \div 4>>,
       <<1000, HEIGHT \div 2 + road_width \div 4>>,
       <<WIDTH \div 2 + road_width \div 4, 1000>>,
       <<WIDTH \div 2 - road_width \div 4, HEIGHT - 1000>> >>

\* The (entry, exit) pairs that random.choice draws for a car spawned in the
\* loop: the straight run east, an exit within the arrival radius of its entry,
\* the straight run south.
SpawnDraws == {<<1, 1>>, <<1, 2>>, <<3, 4>>}

\* The draws for the cars created together (at start-up and by the R key).
\* With four entry points, two of the five cars always share one.
DrawsA == << <<1, 1>>, <<1, 1>>, <<3, 4>>, <<2, 1>>, <<4, 4>> >>
DrawsB == << <<1, 2>>, <<3, 4>>, <<2, 1>>, <<3, 4>>, <<4, 4>> >>
InitialDraws == {DrawsA, DrawsB}

(***************************************************************************)
(* car.py                                                                  *)
(***************************************************************************)
\* Car.__init__: the fields that Car.update reads or writes.
NewCar(x, y, angle, destination) ==
    [x |-> x, y |-> y, angle |-> angle, destination |-> destination,
     speed |-> 0, reached_destination |-> FALSE, crashed |-> FALSE,
     stuck_counter |-> 0, last_position |-> <<x, y>>,
     frames_since_position_check |-> 0]

\* Car(environment, traffic_controller, random_init=True)
RandomCar(e, d) ==
    NewCar(entry_points[e][1], entry_points[e][2], entry_points[e][3], exit_points[d])

\* Car(environment, traffic_controller)
DefaultCar == NewCar(5000, HEIGHT \div 2, 0, <<WIDTH - 5000, HEIGHT \div 2>>)

\* A faulty early return that lets a crashed car go on updating.
is_terminal_arrived_only(c) == c.reached_destination

\* The early return of Car.update.
is_terminal(c) == c.reached_destination \/ c.crashed

\* The stuck detector: the fields after it has run.
stuck_check(c) ==
    LET frames == c.frames_since_position_check + 1
        moved_little == DistLT(c.x - c.last_position[1], c.y - c.last_position[2],
                               stuck_distance)
        counted == IF moved_little THEN c.stuck_counter + 1 ELSE 0
    IN  IF frames >= position_check_interval
        THEN [c EXCEPT !.frames_since_position_check = 0,
                       !.last_position = <<c.x, c.y>>,
                       !.stuck_counter = IF counted > max_stuck_time THEN 0 ELSE counted,
                       !.speed = IF counted > max_stuck_time THEN max_speed \div 2
                                 ELSE c.speed]
        ELSE [c EXCEPT !.frames_since_position_check = frames]

\* A faulty acceleration step without the factor 0.1.
accelerate_unscaled(speed, acc) == speed + (acc + forward_bias)

\* self.speed += self.acceleration * 0.1, with acceleration = output + 0.1
accelerate(speed, acc) == speed + (acc + forward_bias) \div 10

\* A faulty update that leaves the clamp out.
clamp_speed_absent(speed) == speed

\* self.speed = max(-self.max_speed/2, min(self.max_speed, self.speed))
clamp_speed(speed) == Max(-(max_speed \div 2), Min(max_speed, speed))

\* A faulty update that leaves the minimum-motion floor out.
prevent_stop_absent(speed) == speed

\* if abs(self.speed) < 0.5: self.speed = 0.5 if self.speed >= 0 else -0.5
prevent_stop(speed) ==
    IF Abs(speed) < min_motion
    THEN (IF speed >= 0 THEN min_motion ELSE -min_motion)
    ELSE speed

\* self.angle += self.steering * (self.speed / self.max_speed), steering = output * 5
steer_angle(angle, steer, speed) == angle + (steer * 5 * speed) \div (100 * max_speed)

\* self.speed = max(0.5, self.speed - 0.5)
slow_for_signal(speed) == Max(min_motion, speed - signal_brake)

check_collision_half_width(x, y, other_cars, self) ==
    \/ is_colliding_with_wall(x, y)
    \/ \E j \in DOMAIN other_cars :
          /\ j # self
          /\ DistLT(other_cars[j].x - x, other_cars[j].y - y, car_width \div 2)

\* Car._check_collision for a car at (x, y) that is element `self` of other_cars.
check_collision(x, y, other_cars, self) ==
    \/ is_colliding_with_wall(x, y)
    \/ \E j \in DOMAIN other_cars :
          /\ j # self
          /\ DistLT(other_cars[j].x - x, other_cars[j].y - y,
                    (car_width + car_width) \div 2)

\* Car._check_destination
check_destination(x, y, destination) ==
    DistLT(destination[1] - x, destination[2] - y, arrival_radius)

\* The four approach cases of car.py:282-287 and traffic_control.py:117-122,
\* for the heading a that each of them compares.
approaching_intersection(a, dx, dy) ==
    \/ (a < 180 /\ dy > 0)
    \/ (a > 180 /\ dy < 0)
    \/ (a > 90 /\ a < 270 /\ dx > 0)
    \/ ((a < 90 \/ a > 270) /\ dx < 0)

\* Car._should_stop_for_signal, reading traffic_controller.current_phase.
should_stop_for_signal(x, y, angle, current_phase) ==
    LET dx == get_nearest_intersection[1] - x
        dy == get_nearest_intersection[2] - y
    IN  IF DistGT(dx, dy, car_signal_radius) THEN FALSE
        ELSE IF ~approaching_intersection(angle % 360, dx, dy) THEN FALSE
        ELSE IF is_north_south(angle) THEN current_phase = 1
        ELSE current_phase = 0

\* 1000 * math.cos(math.radians(a)) and 1000 * math.sin(math.radians(a)) for
\* the multiples of 45 degrees, the directions of the sensor rays of a car
\* whose heading lies on an axis.
Cos1000(a) ==
    CASE a % 360 = 0 -> 1000
      [] a % 360 \in {45, 315} -> 707
      [] a % 360 \in {90, 270} -> 0
      [] a % 360 \in {135, 225} -> -707
      [] a % 360 = 180 -> -1000

Sin1000(a) == Cos1000(a - 90)

\* v / 1000 rounded toward zero.
Scale1000(v) == IF v >= 0 THEN v \div 1000 ELSE -((-v) \div 1000)

RECURSIVE wall_scan(_, _, _, _)
\* The for loop of Environment.get_wall_distance from step k (in whole units).
wall_scan(x, y, angle, k) ==
    IF k * 100 >= sensor_range THEN sensor_range
    ELSE IF ~is_on_road(x + Scale1000(k * 100 * Cos1000(angle)),
                        y + Scale1000(k * 100 * Sin1000(angle)))
         THEN k * 100
         ELSE wall_scan(x, y, angle, k + ray_step)

\* Environment.get_wall_distance(x, y, angle, self.sensor_range)
get_wall_distance(x, y, angle) == wall_scan(x, y, angle, 0)

RECURSIVE Isqrt(_, _, _)
\* The largest r in lo..hi with r * r <= n (math.sqrt, rounded down to a hundredth).
Isqrt(n, lo, hi) ==
    IF lo >= hi THEN lo
    ELSE LET mid == (lo + hi + 1) \div 2
         IN  IF mid * mid <= n THEN Isqrt(n, mid, hi) ELSE Isqrt(n, lo, mid - 1)

\* abs((angle_to_car - sensor_angle + 180) % 360 - 180) <= 15 for the offset
\* (dx, dy) to the other car: the offset lies within 15 degrees of the ray
\* (tan 15 = 0.268).  math.atan2(0, 0) is 0.
angle_diff_within(dx, dy, sensor_angle) ==
    IF dx = 0 /\ dy = 0
    THEN sensor_angle % 360 <= cone_half_angle
         \/ sensor_angle % 360 >= 360 - cone_half_angle
    ELSE LET along == Scale1000(dx * Cos1000(sensor_angle) + dy * Sin1000(sensor_angle))
             across == Scale1000(dy * Cos1000(sensor_angle) - dx * Sin1000(sensor_angle))
         IN  along > 0 /\ Abs(across) * 1000 <= along * 268

\* A faulty _get_distance_to_car that ignores the direction of the sensor.
get_distance_to_car_any_direction(x, y, sensor_angle, other_car) ==
    LET dx == other_car.x - x
        dy == other_car.y - y
    IN  IF ~DistGT(dx, dy, sensor_range)
        THEN Isqrt(dx * dx + dy * dy, 0, sensor_range)
        ELSE sensor_range

\* Car._get_distance_to_car(sensor_angle, other_car) of the car at (x, y)
get_distance_to_car(x, y, sensor_angle, other_car) ==
    LET dx == other_car.x - x
        dy == other_car.y - y
    IN  IF angle_diff_within(dx, dy, sensor_angle) /\ ~DistGT(dx, dy, sensor_range)
        THEN Isqrt(dx * dx + dy * dy, 0, sensor_range)
        ELSE sensor_range

sensor_angles == <<-90, -45, 0, 45, 90>>

RECURSIVE nearest_car(_, _, _, _, _, _)
\* min_distance after the loop over the first n elements of other_cars.
nearest_car(x, y, sensor_angle, other_cars, self, n) ==
    IF n = 0 THEN sensor_range
    ELSE LET rest == nearest_car(x, y, sensor_angle, other_cars, self, n - 1)
         IN  IF n = self THEN rest
             ELSE Min(rest, get_distance_to_car(x, y, sensor_angle, other_cars[n]))

\* Car._get_sensor_data(other_cars) of car c, element `self` of other_cars:
\* each reading is the fraction <<min_distance, sensor_range>>.
get_sensor_data(c, other_cars, self) ==
    [k \in 1..5 |->
        LET sensor_angle == c.angle + sensor_angles[k]
        IN  <<Min(Min(sensor_range, get_wall_distance(c.x, c.y, sensor_angle)),
                  nearest_car(c.x, c.y, sensor_angle, other_cars, self, Len(other_cars))),
              sensor_range>>]

\* A faulty update that does not return after a crash: the arrival check and
\* signal compliance still run.
Car_update_no_return(c, other_cars, self, current_phase, acc, steer) ==
    IF is_terminal(c) THEN c
    ELSE
      LET s == stuck_check(c)
          speed == prevent_stop(clamp_speed(accelerate(s.speed, acc)))
          angle == steer_angle(s.angle, steer, speed)
          x == s.x + speed * CosDeg(angle)
          y == s.y + speed * SinDeg(angle)
          moved == [s EXCEPT !.speed = speed, !.angle = angle, !.x = x, !.y = y]
          hit == check_collision(x, y, other_cars, self)
          arrived == check_destination(x, y, moved.destination)
          after == IF hit \/ arrived THEN 0 ELSE speed
      IN  [moved EXCEPT
             !.crashed = hit,
             !.reached_destination = arrived,
             !.speed = IF should_stop_for_signal(x, y, angle, current_phase)
                       THEN slow_for_signal(after) ELSE after]

\* Car.update(other_cars) for the car c that is element `self` of other_cars,
\* with the policy's outputs (acc, steer) and the controller's phase.
Car_update(c, other_cars, self, current_phase, acc, steer) ==
    IF is_terminal(c) THEN c
    ELSE
      LET s == stuck_check(c)
          speed == prevent_stop(clamp_speed(accelerate(s.speed, acc)))
          angle == steer_angle(s.angle, steer, speed)
          x == s.x + speed * CosDeg(angle)
          y == s.y + speed * SinDeg(angle)
          moved == [s EXCEPT !.speed = speed, !.angle = angle, !.x = x, !.y = y]
      IN  IF check_collision(x, y, other_cars, self)
          THEN [moved EXCEPT !.crashed = TRUE, !.speed = 0]
          ELSE
            LET arrived == check_destination(x, y, moved.destination)
                after == IF arrived THEN 0 ELSE speed
            IN  [moved EXCEPT
                   !.reached_destination = arrived,
                   !.speed = IF should_stop_for_signal(x, y, angle, current_phase)
                             THEN slow_for_signal(after) ELSE after]

(***************************************************************************)
(* traffic_control.py                                                      *)
(* Lanes are indexed 1..4 for the code's 0..3: North, South, East, West.   *)
(* An average speed is the fraction <<numerator, denominator>>.            *)
(***************************************************************************)
Zero == <<0, 1>>
One == <<1, 1>>
RatEq(p, q) == p[1] * q[2] = q[1] * p[2]

\* TrafficControl.__init__ at wall-clock time t.
NewTrafficControl(t) ==
    [current_phase |-> 0,
     last_phase_change |-> t,
     cars_per_lane |-> <<0, 0, 0, 0>>,
     avg_speed_per_lane |-> <<Zero, Zero, Zero, Zero>>,
     wait_time_per_lane |-> <<0, 0, 0, 0>>]

\* A faulty rate limit that lets the phase change one second early.
phase_due_early(t, current_time) ==
    current_time - t.last_phase_change >= min_phase_duration - 1

\* current_time - self.last_phase_change >= self.min_phase_duration
phase_due(t, current_time) == current_time - t.last_phase_change >= min_phase_duration

\* A faulty reset that clears only the first lane of the pair.
reset_wait_first_lane(wait, phase) ==
    IF phase = 0 THEN [wait EXCEPT ![1] = 0]
    ELSE IF phase = 1 THEN [wait EXCEPT ![3] = 0]
    ELSE wait

\* Reset wait time for the lanes that just got a green light.
reset_wait(wait, phase) ==
    IF phase = 0 THEN [wait EXCEPT ![1] = 0, ![2] = 0]
    ELSE IF phase = 1 THEN [wait EXCEPT ![3] = 0, ![4] = 0]
    ELSE wait

\* A faulty accrual that counts only the through phases as red: phase 1 for
\* North and South, phase 0 for East and West.
accrue_wait_through_only(wait, phase) ==
    LET ns == IF phase = 1
              THEN [wait EXCEPT ![1] = @ + wait_step, ![2] = @ + wait_step]
              ELSE wait
    IN  IF phase = 0
        THEN [ns EXCEPT ![3] = @ + wait_step, ![4] = @ + wait_step]
        ELSE ns

\* Increment wait time for lanes that have red lights.
accrue_wait(wait, phase) ==
    LET ns == IF phase \in {1, 2, 3}
              THEN [wait EXCEPT ![1] = @ + wait_step, ![2] = @ + wait_step]
              ELSE wait
    IN  IF phase \in {0, 2, 3}
        THEN [ns EXCEPT ![3] = @ + wait_step, ![4] = @ + wait_step]
        ELSE ns

\* A faulty update that restarts the timer whenever the policy was queried.
TrafficControl_update_restamps(t, current_time, new_phase) ==
    LET changed == phase_due(t, current_time) /\ new_phase # t.current_phase
        phase == IF changed THEN new_phase ELSE t.current_phase
        wait == IF changed THEN reset_wait(t.wait_time_per_lane, phase)
                ELSE t.wait_time_per_lane
    IN  [t EXCEPT !.current_phase = phase,
                  !.last_phase_change = IF phase_due(t, current_time)
                                        THEN current_time ELSE @,
                  !.wait_time_per_lane = accrue_wait(wait, phase)]

\* A faulty update that commits the phase after the one the policy returned.
TrafficControl_update_next_phase(t, current_time, new_phase) ==
    LET changed == phase_due(t, current_time) /\ new_phase # t.current_phase
        phase == IF changed THEN new_phase + 1 ELSE t.current_phase
        wait == IF changed THEN reset_wait(t.wait_time_per_lane, phase)
                ELSE t.wait_time_per_lane
    IN  [t EXCEPT !.current_phase = phase,
                  !.last_phase_change = IF changed THEN current_time ELSE @,
                  !.wait_time_per_lane = accrue_wait(wait, phase)]

\* TrafficControl.update() called at current_time; new_phase is what
\* self.brain.get_action(state) returns if it is called.
TrafficControl_update(t, current_time, new_phase) ==
    LET changed == phase_due(t, current_time) /\ new_phase # t.current_phase
        phase == IF changed THEN new_phase ELSE t.current_phase
        wait == IF changed THEN reset_wait(t.wait_time_per_lane, phase)
                ELSE t.wait_time_per_lane
    IN  [t EXCEPT !.current_phase = phase,
                  !.last_phase_change = IF changed THEN current_time ELSE @,
                  !.wait_time_per_lane = accrue_wait(wait, phase)]

\* A faulty should_stop whose answer also depends on the wall clock: it holds
\* no car back in the first second after a phase change.
should_stop_timed(t, x, y, angle) ==
    LET dx == get_nearest_intersection[1] - x
        dy == get_nearest_intersection[2] - y
    IN  IF now - t.last_phase_change < 1 THEN FALSE
        ELSE IF DistGT(dx, dy, controller_signal_radius) THEN FALSE
        ELSE IF ~approaching_intersection(angle, dx, dy) THEN FALSE
        ELSE IF is_north_south(angle) THEN t.current_phase = 1
        ELSE t.current_phase = 0

\* TrafficControl.should_stop(x, y, angle)
should_stop(t, x, y, angle) ==
    LET dx == get_nearest_intersection[1] - x
        dy == get_nearest_intersection[2] - y
    IN  IF DistGT(dx, dy, controller_signal_radius) THEN FALSE
        ELSE IF ~approaching_intersection(angle, dx, dy) THEN FALSE
        ELSE IF is_north_south(angle) THEN t.current_phase = 1
        ELSE t.current_phase = 0

\* The lane (1..4) update_traffic_stats counts car c in, 0 if it counts it in none.
lane_of(c) ==
    LET dx == get_nearest_intersection[1] - c.x
        dy == get_nearest_intersection[2] - c.y
    IN  IF DistGT(dx, dy, stats_radius) THEN 0
        ELSE IF is_north_south(c.angle)
             THEN (IF c.y < get_nearest_intersection[2] THEN 1 ELSE 2)
             ELSE (IF c.x > get_nearest_intersection[1] THEN 3 ELSE 4)

RECURSIVE lane_speed(_, _, _)
\* The sum of car.speed over the first n cars that are counted in the lane.
lane_speed(cs, lane, n) ==
    IF n = 0 THEN 0
    ELSE lane_speed(cs, lane, n - 1) + (IF lane_of(cs[n]) = lane THEN cs[n].speed ELSE 0)

\* TrafficControl.update_traffic_stats(cars)
update_traffic_stats(t, cs) ==
    LET count(lane) == Cardinality({j \in DOMAIN cs : lane_of(cs[j]) = lane})
    IN  [t EXCEPT
           !.cars_per_lane = [lane \in 1..4 |-> count(lane)],
           !.avg_speed_per_lane =
               [lane \in 1..4 |->
                   IF count(lane) > 0
                   THEN <<lane_speed(cs, lane, Len(cs)), count(lane) * max_speed>>
                   ELSE One]]

(***************************************************************************)
(* main.py                                                                 *)
(***************************************************************************)
\* for i in range(5): cars.append(Car(environment, traffic_controller, random_init=True))
\* for each sequence of five draws of the model.
CarList(d) == [k \in 1..initial_cars |-> RandomCar(d[k][1], d[k][2])]

InitialCarLists == {CarList(d) : d \in {t \in InitialDraws : Len(t) = initial_cars}}

\* list.pop(k) for a 1-based index k.
pop(list, k) == [j \in 1..(Len(list) - 1) |-> IF j < k THEN list[j] ELSE list[j + 1]]

\* A faulty cull that pops nothing.
remove_cars_none(list, indices) == list

RECURSIVE remove_cars_ascending(_, _)
\* A faulty cull that pops the indices in ascending order.
remove_cars_ascending(list, indices) ==
    IF indices = {} THEN list
    ELSE LET k == CHOOSE m \in indices : \A n \in indices : m <= n
         IN  remove_cars_ascending(IF k <= Len(list) THEN pop(list, k) ELSE list,
                                   indices \ {k})

RECURSIVE remove_cars(_, _)
\* for i in sorted(cars_to_remove, reverse=True): cars.pop(i)
remove_cars(list, indices) ==
    IF indices = {} THEN list
    ELSE LET k == CHOOSE m \in indices : \A n \in indices : n <= m
         IN  remove_cars(pop(list, k), indices \ {k})

Range(seq) == {seq[j] : j \in DOMAIN seq}

Init ==
    /\ cars \in InitialCarLists
    /\ tc = NewTrafficControl(0)
    /\ now = 0
    /\ frame_count = 0
    /\ pc = "events"
    /\ i = 1
    /\ cars_to_remove = <<>>
    /\ ticks = 0
    /\ snapshot = <<>>
    /\ queried = FALSE
    /\ keys = 0
    /\ queries = <<>>

\* The loop body is entered (`running` stays True: pygame.QUIT is not modelled),
\* within the bound of the model.
LoopEntered == pc = "events" /\ ticks < MaxTicks

\* pygame.KEYDOWN with K_SPACE: one more car.
KeySpace ==
    /\ LoopEntered
    /\ Len(cars) < MaxCars
    /\ keys < MaxKeys
    /\ keys' = keys + 1
    /\ \E sd \in SpawnDraws : cars' = Append(cars, RandomCar(sd[1], sd[2]))
    /\ pc' = "spawn"
    /\ UNCHANGED <<tc, now, frame_count, i, cars_to_remove, ticks, snapshot,
                   queried, queries>>

\* pygame.KEYDOWN with K_r: the list is rebuilt.
KeyReset ==
    /\ LoopEntered
    /\ keys < MaxKeys
    /\ keys' = keys + 1
    /\ cars' \in InitialCarLists
    /\ pc' = "spawn"
    /\ UNCHANGED <<tc, now, frame_count, i, cars_to_remove, ticks, snapshot,
                   queried, queries>>

\* No event is pending.
NoEvent ==
    /\ LoopEntered
    /\ pc' = "spawn"
    /\ UNCHANGED <<cars, tc, now, frame_count, i, cars_to_remove, ticks,
                   snapshot, queried, keys, queries>>

\* main.py:64-68: the frame counter and the periodic spawn.
spawn_due(frames, list) == frames % spawn_interval = 0 /\ Len(list) < spawn_cap

PeriodicSpawn ==
    /\ pc = "spawn"
    /\ frame_count' = frame_count + 1
    /\ \E sd \in SpawnDraws :
          cars' = IF spawn_due(frame_count + 1, cars)
                  THEN Append(cars, RandomCar(sd[1], sd[2]))
                  ELSE cars
    /\ pc' = "controller"
    /\ UNCHANGED <<tc, now, i, cars_to_remove, ticks, snapshot, queried, keys,
                   queries>>

\* main.py:71: traffic_controller.update(), then the for loop over cars begins.
ControllerUpdate ==
    /\ pc = "controller"
    /\ \E new_phase \in (IF phase_due(tc, now) THEN Phases ELSE {tc.current_phase}) :
          tc' = TrafficControl_update(tc, now, new_phase)
    /\ queried' = phase_due(tc, now)
    /\ pc' = "cars"
    /\ i' = 1
    /\ cars_to_remove' = <<>>
    /\ snapshot' = cars
    /\ UNCHANGED <<cars, now, frame_count, ticks, keys, queries>>

\* main.py:76-82: one pass of the for loop: car.update(cars) for element i.
CarUpdate ==
    /\ pc = "cars"
    /\ i <= Len(cars)
    /\ \E acc \in AccelOut, steer \in SteerOut :
          cars' = [cars EXCEPT ![i] = Car_update(cars[i], cars, i, tc.current_phase,
                                                 acc, steer)]
    /\ cars_to_remove' = IF cars'[i].reached_destination
                         THEN Append(cars_to_remove, i) ELSE cars_to_remove
    /\ i' = i + 1
    /\ UNCHANGED <<tc, now, frame_count, pc, ticks, snapshot, queried, keys,
                   queries>>

\* main.py:85-86: the arrived cars are popped.
RemoveArrived ==
    /\ pc = "cars"
    /\ i > Len(cars)
    /\ cars' = remove_cars(cars, Range(cars_to_remove))
    /\ pc' = "clock"
    /\ snapshot' = <<>>
    /\ UNCHANGED <<tc, now, frame_count, i, cars_to_remove, ticks, queried,
                   keys, queries>>

\* main.py:103: clock.tick(60); wall-clock time has moved on when the loop
\* condition is tested.
ClockTick ==
    /\ pc = "clock"
    /\ \E dt \in FrameSeconds : now' = now + dt
    /\ ticks' = ticks + 1
    /\ pc' = "events"
    /\ UNCHANGED <<cars, tc, frame_count, i, cars_to_remove, snapshot,
                   queried, keys, queries>>

Next ==
    \/ KeySpace
    \/ KeyReset
    \/ NoEvent
    \/ PeriodicSpawn
    \/ ControllerUpdate
    \/ CarUpdate
    \/ RemoveArrived
    \/ ClockTick

Spec == Init /\ [][Next]_vars

(***************************************************************************)
(* The loop further into a run.  Iteration is one whole iteration of the   *)
(* loop body, composed of the operators the actions above apply one at a   *)
(* time, and FastForward runs n of them from the start-up state under a    *)
(* fixed policy: the car policy always answers 0.9 and no steering, the    *)
(* phase policy always answers `phase`, no key is pressed and every        *)
(* iteration takes 5 seconds.  SpecMid explores the loop from such states. *)
(***************************************************************************)
RECURSIVE car_pass(_, _, _, _)
\* for i, car in enumerate(cars): car.update(cars), from element k on.
car_pass(cs, k, current_phase, acc) ==
    IF k > Len(cs) THEN cs
    ELSE car_pass([cs EXCEPT ![k] = Car_update(cs[k], cs, k, current_phase, acc, 0)],
                  k + 1, current_phase, acc)

Iteration(st, phase, acc, sd, dt) ==
    LET frames == st.frame_count + 1
        spawned == IF spawn_due(frames, st.cars)
                   THEN Append(st.cars, RandomCar(sd[1], sd[2])) ELSE st.cars
        t == TrafficControl_update(st.tc, st.now, phase)
        passed == car_pass(spawned, 1, t.current_phase, acc)
        arrived == {k \in DOMAIN passed : passed[k].reached_destination}
    IN  [cars |-> remove_cars(passed, arrived), tc |-> t, now |-> st.now + dt,
         frame_count |-> frames]

\* n iterations of the loop at full throttle, computed by halving: the test on
\* frame_count always succeeds and makes TLC finish the first half before it
\* starts the second.
RECURSIVE FastForward(_, _, _)
FastForward(st, n, phase) ==
    IF n = 0 THEN st
    ELSE IF n = 1 THEN Iteration(st, phase, 90, <<1, 1>>, 5)
    ELSE LET half == FastForward(st, n \div 2, phase)
         IN  IF half.frame_count = st.frame_count + n \div 2
             THEN FastForward(half, n - n \div 2, phase) ELSE st

StartUp(d) ==
    [cars |-> CarList(d), tc |-> NewTrafficControl(0), now |-> 0, frame_count |-> 0]

\* <<n, phase>>: the south-bound car of DrawsA is about to reach max_speed (45),
\* braking at the red light of phase 1 (95); the frame counter is about to reach
\* spawn_interval (298), the car having arrived and left the list.
MidRuns == {<<45, 0>>, <<95, 1>>, <<298, 0>>}

InitMid ==
    /\ \E r \in MidRuns :
          LET st == FastForward(StartUp(DrawsA), r[1], r[2])
          IN  /\ cars = st.cars
              /\ tc = st.tc
              /\ now = st.now
              /\ frame_count = st.frame_count
    /\ pc = "events"
    /\ i = 1
    /\ cars_to_remove = <<>>
    /\ ticks = 0
    /\ snapshot = <<>>
    /\ queried = FALSE
    /\ keys = 0
    /\ queries = <<>>

SpecMid == InitMid /\ [][Next]_vars

(***************************************************************************)
(* The stop decision on its own.  One car stands at a point near the       *)
(* intersection with some heading, and the two implementations of the stop *)
(* decision are called for it, Car._should_stop_for_signal on the car and  *)
(* TrafficControl.should_stop with the car's x, y and angle, while time     *)
(* passes and TrafficControl.update is called.  `queries` holds the answers *)
(* of the latest call: the phase it saw, what each implementation returned *)
(* and whether the call before it (with no update in between) was made for *)
(* the same car.                                                           *)
(***************************************************************************)
\* Points on the two roads at 50, 90 and 110 units from the centre, on either
\* side of it: inside both proximity radii, between them, and outside both.
QueryPoints ==
    {<<50000, 35000>>, <<50000, 31000>>, <<50000, 29000>>, <<50000, 45000>>,
     <<45000, 40000>>, <<41000, 40000>>, <<55000, 40000>>, <<61000, 40000>>}

\* Headings along the roads, inside and outside [0, 360).
QueryAngles == {0, 90, 180, 270, -90, -180, 450}

InitStop ==
    /\ \E p \in QueryPoints, a \in QueryAngles :
          cars = <<NewCar(p[1], p[2], a, exit_points[1])>>
    /\ tc = NewTrafficControl(0)
    /\ now = 0
    /\ frame_count = 0
    /\ pc = "harness"
    /\ i = 1
    /\ cars_to_remove = <<>>
    /\ ticks = 0
    /\ snapshot = <<>>
    /\ queried = FALSE
    /\ keys = 0
    /\ queries = <<>>

\* car._should_stop_for_signal() and traffic_controller.should_stop(car.x, car.y, car.angle)
StopQuery ==
    /\ pc \in {"harness", "updated"}
    /\ queries' = << [phase |-> tc.current_phase,
                      car |-> should_stop_for_signal(cars[1].x, cars[1].y, cars[1].angle,
                                                     tc.current_phase),
                      controller |-> should_stop(tc, cars[1].x, cars[1].y, cars[1].angle),
                      repeated |-> queries # <<>>] >>
    /\ UNCHANGED <<cars, tc, now, frame_count, pc, i, cars_to_remove,
                   ticks, snapshot, queried, keys>>

\* Wall-clock time passes.
Elapse ==
    /\ pc \in {"harness", "updated"}
    /\ ticks < MaxTicks
    /\ \E dt \in FrameSeconds : now' = now + dt
    /\ ticks' = ticks + 1
    /\ pc' = "harness"
    /\ UNCHANGED <<cars, tc, frame_count, i, cars_to_remove,
                   snapshot, queried, keys, queries>>

\* traffic_controller.update()
CallUpdate ==
    /\ pc = "harness"
    /\ \E new_phase \in Phases : tc' = TrafficControl_update(tc, now, new_phase)
    /\ queried' = phase_due(tc, now)
    /\ queries' = <<>>
    /\ pc' = "updated"
    /\ UNCHANGED <<cars, now, frame_count, i, cars_to_remove,
                   ticks, snapshot, keys>>

NextStop ==
    \/ StopQuery
    \/ Elapse
    \/ CallUpdate

SpecStop == InitStop /\ [][NextStop]_vars

(***************************************************************************)
(* The sensors on their own.  A car stands on a road with a heading along  *)
(* an axis, alone or with one other car near it, and _get_sensor_data is   *)
(* called for it as Car.update does.  `queries` then holds the five        *)
(* readings and, for each ray, what the wall ray-cast returned.            *)
(***************************************************************************)
\* (x, y, angle) of the sensing car: on the vertical road, on the horizontal
\* road, at the centre of the intersection, at the left entry point, and with
\* headings outside [0, 360).
SensePoses ==
    {<<48500, 20000, 90>>, <<25000, 38500, 0>>, <<50000, 40000, 0>>,
     <<1000, 38500, 0>>, <<51500, 60000, -90>>, <<75000, 41500, 540>>}

\* Where the other car stands, relative to the sensing car: on a ray, a few
\* degrees off a ray, between two rays, behind, at the same point, and beyond
\* sensor_range.
SenseOffsets ==
    {<<5000, 0>>, <<0, 5000>>, <<0, -5000>>, <<-5000, 0>>, <<3000, 3000>>,
     <<5000, 900>>, <<5000, 2500>>, <<900, -5000>>, <<0, 0>>, <<14000, 0>>,
     <<0, 16000>>, <<20000, 0>>, <<-3000, 3000>>, <<0, 14900>>}

InitSense ==
    /\ \E p \in SensePoses :
          \/ cars = <<NewCar(p[1], p[2], p[3], exit_points[1])>>
          \/ \E o \in SenseOffsets :
                cars = <<NewCar(p[1], p[2], p[3], exit_points[1]),
                         NewCar(p[1] + o[1], p[2] + o[2], 0, exit_points[2])>>
    /\ tc = NewTrafficControl(0)
    /\ now = 0
    /\ frame_count = 0
    /\ pc = "sensing"
    /\ i = 1
    /\ cars_to_remove = <<>>
    /\ ticks = 0
    /\ snapshot = <<>>
    /\ queried = FALSE
    /\ keys = 0
    /\ queries = <<>>

\* sensor_data = self._get_sensor_data(other_cars) for cars[1]
Sense ==
    /\ pc = "sensing"
    /\ queries = <<>>
    /\ queries' = << [sensor_data |-> get_sensor_data(cars[1], cars, 1),
                      wall |-> [k \in 1..5 |->
                                   get_wall_distance(cars[1].x, cars[1].y,
                                                     cars[1].angle + sensor_angles[k])]] >>
    /\ UNCHANGED <<cars, tc, now, frame_count, pc, i, cars_to_remove,
                   ticks, snapshot, queried, keys>>

NextSense == Sense

SpecSense == InitSense /\ [][NextSense]_vars

(***************************************************************************)
(* One car on its own.  The car is built with random_init False, so it     *)
(* starts at (50, HEIGHT/2) heading 0 with destination (WIDTH - 50,        *)
(* HEIGHT/2), on the horizontal road of main.py's environment, and         *)
(* Car.update is called on it once per tick with no other car.  The policy *)
(* is one of the two constant ones: its first output decides the direction *)
(* of travel and each later output has the same sign.  The controller     *)
(* shows one phase throughout a run.                                       *)
(***************************************************************************)
InitSolo ==
    /\ cars = <<DefaultCar>>
    /\ \E phase \in Phases : tc = [NewTrafficControl(0) EXCEPT !.current_phase = phase]
    /\ now = 0
    /\ frame_count = 0
    /\ pc = "solo"
    /\ i = 1
    /\ cars_to_remove = <<>>
    /\ ticks = 0
    /\ snapshot = <<>>
    /\ queried = FALSE
    /\ keys = 0
    /\ queries = <<>>

\* car.update(cars, dt) for the only car
SoloUpdate ==
    /\ pc = "solo"
    /\ ~is_terminal(cars[1])
    /\ \E acc \in AccelOut, steer \in SteerOut :
          /\ cars[1].speed = 0 \/ (acc < 0) = (cars[1].speed < 0)
          /\ cars' = <<Car_update(cars[1], cars, 1, tc.current_phase, acc, steer)>>
    /\ UNCHANGED <<tc, now, frame_count, pc, i, cars_to_remove, ticks,
                   snapshot, queried, keys, queries>>

NextSolo == SoloUpdate

SpecSolo == InitSolo /\ [][NextSolo]_vars

\* Every tick of the simulation calls update on a car that is not terminal.
SpecSoloFair == SpecSolo /\ WF_vars(SoloUpdate)

(***************************************************************************)
(* Two cars head-on.  Two cars are posed on the line y = 385 of the        *)
(* horizontal road, west of the intersection and outside its signal        *)
(* radius: one heads east (angle 0), the other, `gap` to its east, heads   *)
(* west (angle 180), each with the far exit on its side as destination.    *)
(* The loop has run 5 or 50 iterations at full throttle, which brings the  *)
(* cars to 0.9 or to max_speed and within three car widths of each other,  *)
(* and SpecHeadOn explores the loop from there with no key pressed.        *)
(***************************************************************************)
HeadOnStart(gap, east_first) ==
    LET east == NewCar(5000, 38500, 0, exit_points[1])
        west == NewCar(5000 + gap, 38500, 180, exit_points[2])
    IN  [cars |-> IF east_first THEN <<east, west>> ELSE <<west, east>>,
         tc |-> NewTrafficControl(0), now |-> 0, frame_count |-> 0]

\* <<n, gap>>: n iterations leave the cars 10.5 to 35 units apart.
HeadOnRuns ==
    {<<5, 1750>>, <<5, 1850>>, <<5, 2000>>, <<50, 30500>>, <<50, 30750>>,
     <<50, 31200>>, <<50, 31700>>, <<50, 32250>>, <<50, 32800>>}

InitHeadOn ==
    /\ \E r \in HeadOnRuns, east_first \in BOOLEAN :
          LET st == FastForward(HeadOnStart(r[2], east_first), r[1], 0)
          IN  /\ cars = st.cars
              /\ tc = st.tc
              /\ now = st.now
              /\ frame_count = st.frame_count
    /\ pc = "events"
    /\ i = 1
    /\ cars_to_remove = <<>>
    /\ ticks = 0
    /\ snapshot = <<>>
    /\ queried = FALSE
    /\ keys = 0
    /\ queries = <<>>

NextHeadOn ==
    \/ NoEvent
    \/ PeriodicSpawn
    \/ ControllerUpdate
    \/ CarUpdate
    \/ RemoveArrived
    \/ ClockTick

SpecHeadOn == InitHeadOn /\ [][NextHeadOn]_vars

(***************************************************************************)
(* Car.update in a small environment.  Environment takes its width and     *)
(* height as arguments and lays the intersection, the roads, the entry and *)
(* the exit points out around its centre.  In Environment(160, 160) the    *)
(* entry and exit points lie within the signal radius of 80.  The states   *)
(* below are those of one car in that environment, drawn 420 to the east   *)
(* and 320 to the south so that its centre is the centre of the model's    *)
(* intersection: the car starts on an entry point with an exit point as    *)
(* destination, the controller shows one phase throughout, the policy is   *)
(* one of the two constant ones (as in SpecSolo) and updates are followed  *)
(* for as long as the car stays inside the 160 by 160 square.              *)
(***************************************************************************)
\* Environment(160, 160).get_entry_points(), moved by (420, 320)
UnitEntries ==
    {<<43000, 38500, 0>>, <<57000, 41500, 180>>, <<48500, 33000, 90>>,
     <<51500, 47000, 270>>}

\* Environment(160, 160).get_exit_points(), moved by (420, 320)
UnitExits ==
    {<<57000, 38500>>, <<43000, 41500>>, <<51500, 33000>>, <<48500, 47000>>}

\* Inside Environment(160, 160), moved by (420, 320)
InUnitSquare(x, y) ==
    /\ Abs(x - get_nearest_intersection[1]) < 8000
    /\ Abs(y - get_nearest_intersection[2]) < 8000

InitUnit ==
    /\ \E e \in UnitEntries, d \in UnitExits :
          cars = <<NewCar(e[1], e[2], e[3], d)>>
    /\ \E phase \in Phases : tc = [NewTrafficControl(0) EXCEPT !.current_phase = phase]
    /\ now = 0
    /\ frame_count = 0
    /\ pc = "unit"
    /\ i = 1
    /\ cars_to_remove = <<>>
    /\ ticks = 0
    /\ snapshot = <<>>
    /\ queried = FALSE
    /\ keys = 0
    /\ queries = <<>>

\* car.update(cars, dt) for the only car
UnitUpdate ==
    /\ pc = "unit"
    /\ ~is_terminal(cars[1])
    /\ \E acc \in AccelOut, steer \in SteerOut :
          /\ cars[1].speed = 0 \/ (acc < 0) = (cars[1].speed < 0)
          /\ cars' = <<Car_update(cars[1], cars, 1, tc.current_phase, acc, steer)>>
    /\ InUnitSquare(cars'[1].x, cars'[1].y)
    /\ UNCHANGED <<tc, now, frame_count, pc, i, cars_to_remove, ticks,
                   snapshot, queried, keys, queries>>

NextUnit == UnitUpdate

SpecUnit == InitUnit /\ [][NextUnit]_vars

(***************************************************************************)
(* The relative angle to the destination on its own.  A car stands on the  *)
(* intersection centre with a heading that is a multiple of 45 degrees,    *)
(* normalised or not, and its destination lies on one of the eight axis    *)
(* and diagonal directions or on the car itself.  `queries` holds what     *)
(* _get_angle_to_destination returns for the car, the bearing it started   *)
(* from, and what utils.normalize_angle returns for the car's heading.     *)
(***************************************************************************)
\* math.degrees(math.atan2(dy, dx)) for the axis and diagonal directions, where
\* the float result is the whole number of degrees; atan2(0, 0) is 0.
Atan2Deg(dy, dx) ==
    CASE dx > 0 /\ dy = 0 -> 0
      [] dx > 0 /\ dy = dx -> 45
      [] dx = 0 /\ dy > 0 -> 90
      [] dx < 0 /\ dy = -dx -> 135
      [] dx < 0 /\ dy = 0 -> 180
      [] dx < 0 /\ dy = dx -> -135
      [] dx = 0 /\ dy < 0 -> -90
      [] dx > 0 /\ dy = -dx -> -45
      [] dx = 0 /\ dy = 0 -> 0

\* utils.normalize_angle
normalize_angle(angle) == ((angle + 180) % 360) - 180

get_angle_to_destination_upper(c) ==
    LET dx == c.destination[1] - c.x
        dy == c.destination[2] - c.y
    IN  180 - ((180 - (Atan2Deg(dy, dx) - c.angle)) % 360)

\* Car._get_angle_to_destination
get_angle_to_destination(c) ==
    LET dx == c.destination[1] - c.x
        dy == c.destination[2] - c.y
        angle_to_dest == Atan2Deg(dy, dx)
    IN  ((angle_to_dest - c.angle + 180) % 360) - 180

\* Headings from -720 to 720 in steps of 45 degrees.
AngleHeadings == {45 * k - 720 : k \in 0..32}

\* Where the destination lies, relative to the car.
AngleOffsets ==
    {<<3000, 0>>, <<3000, 3000>>, <<0, 3000>>, <<-3000, 3000>>, <<-3000, 0>>,
     <<-3000, -3000>>, <<0, -3000>>, <<3000, -3000>>, <<0, 0>>}

InitAngle ==
    /\ \E a \in AngleHeadings, o \in AngleOffsets :
          cars = <<NewCar(get_nearest_intersection[1], get_nearest_intersection[2], a,
                          <<get_nearest_intersection[1] + o[1],
                            get_nearest_intersection[2] + o[2]>>)>>
    /\ tc = NewTrafficControl(0)
    /\ now = 0
    /\ frame_count = 0
    /\ pc = "angle"
    /\ i = 1
    /\ cars_to_remove = <<>>
    /\ ticks = 0
    /\ snapshot = <<>>
    /\ queried = FALSE
    /\ keys = 0
    /\ queries = <<>>

\* angle_to_destination = self._get_angle_to_destination()
AngleQuery ==
    /\ pc = "angle"
    /\ queries = <<>>
    /\ queries' = << [rel_angle |-> get_angle_to_destination(cars[1]),
                      angle_to_dest |-> Atan2Deg(cars[1].destination[2] - cars[1].y,
                                                 cars[1].destination[1] - cars[1].x),
                      normalized |-> normalize_angle(cars[1].angle)] >>
    /\ UNCHANGED <<cars, tc, now, frame_count, pc, i, cars_to_remove,
                   ticks, snapshot, queried, keys>>

NextAngle == AngleQuery

SpecAngle == InitAngle /\ [][NextAngle]_vars

(***************************************************************************)
(* A car held in place.  The loop of main.py never holds a car: a running  *)
(* car covers at least 0.5 per update, so every position sample finds it   *)
(* more than 2 units on and stuck_counter stays 0.  To exercise the stuck  *)
(* detector the default car is updated as in SpecSolo and put back on its  *)
(* starting point after each update (car.x and car.y are plain            *)
(* attributes), so that every sample sees no displacement.  `ticks` counts *)
(* the updates and `queries` records the update at which the push came.    *)
(***************************************************************************)
InitHeld ==
    /\ cars = <<DefaultCar>>
    /\ tc = NewTrafficControl(0)
    /\ now = 0
    /\ frame_count = 0
    /\ pc = "held"
    /\ i = 1
    /\ cars_to_remove = <<>>
    /\ ticks = 0
    /\ snapshot = <<>>
    /\ queried = FALSE
    /\ keys = 0
    /\ queries = <<>>

\* car.update(cars), then car.x, car.y = the starting point
HeldUpdate ==
    /\ pc = "held"
    /\ ticks < MaxHeldTicks
    /\ ~is_terminal(cars[1])
    /\ \E acc \in AccelOut, steer \in SteerOut :
          /\ cars[1].speed = 0 \/ (acc < 0) = (cars[1].speed < 0)
          /\ cars' = <<[Car_update(cars[1], cars, 1, tc.current_phase, acc, steer)
                          EXCEPT !.x = cars[1].x, !.y = cars[1].y]>>
    /\ ticks' = ticks + 1
    /\ queries' = IF cars'[1].stuck_counter < cars[1].stuck_counter
                  THEN Append(queries, [pushed_at |-> ticks + 1, speed |-> cars'[1].speed])
                  ELSE queries
    /\ UNCHANGED <<tc, now, frame_count, pc, i, cars_to_remove,
                   snapshot, queried, keys>>

NextHeld == HeldUpdate

SpecHeld == InitHeld /\ [][NextHeld]_vars

(***************************************************************************)
(* Properties of the main loop.                                            *)
(***************************************************************************)
\* C1: Phase rate limit.  The current phase changes only in a step of
\* TrafficControl.update taken when at least min_phase_duration seconds have
\* passed since last_phase_change; last_phase_change then becomes the time of
\* that call and otherwise keeps its value, so it is always the time of the
\* latest change (or of construction) and any two changes are at least
\* min_phase_duration apart; and the policy is queried only in such a step.
C1_PhaseRateLimit ==
    [][ /\ tc'.current_phase # tc.current_phase =>
              /\ pc = "controller"
              /\ now - tc.last_phase_change >= 5
              /\ tc'.last_phase_change = now
        /\ tc'.current_phase = tc.current_phase =>
              tc'.last_phase_change = tc.last_phase_change
        /\ (pc = "controller" /\ pc' = "cars" /\ queried') =>
              now - tc.last_phase_change >= 5 ]_vars

\* C1 witness: in the run that starts 225 seconds in with phase 0 held since
\* construction, the phase has left 0 at 225 and is back at 0 since 230: two
\* changes exactly min_phase_duration apart.
C1_Witness == tc.current_phase = 0 /\ tc.last_phase_change = 230

\* C2: Speed bound.  The speed of every car in the list, in every state of
\* every run, lies in [-max_speed/2, max_speed] = [-2.5, 5].
C2_SpeedBound ==
    \A k \in DOMAIN cars : cars[k].speed >= -250 /\ cars[k].speed <= 500

\* C2 witness: a car that began the pass at max_speed has been updated, has
\* moved by max_speed and was not slowed: the clamp has cut its acceleration.
C2_Witness ==
    /\ pc = "cars"
    /\ i > 1
    /\ i - 1 <= Len(cars)
    /\ snapshot[i - 1].speed = 500
    /\ cars[i - 1].speed = 500
    /\ cars[i - 1].y = snapshot[i - 1].y + 500
    /\ ~cars[i - 1].crashed
    /\ ~cars[i - 1].reached_destination

\* C3: Minimum-motion floor.  At the end of every Car.update call the updated
\* car, unless it is crashed or has arrived, has |speed| >= 0.5.
C3_MinimumMotion ==
    [][ (pc = "cars" /\ i <= Len(cars)) =>
            (\/ cars'[i].crashed
             \/ cars'[i].reached_destination
             \/ cars'[i].speed >= 50
             \/ cars'[i].speed <= -50) ]_vars

\* C3 witness: a car has just been updated, is neither crashed nor arrived,
\* had signal compliance applied where it now stands, and moves at 0.5.
C3_Witness ==
    /\ pc = "cars"
    /\ i > 1
    /\ i - 1 <= Len(cars)
    /\ cars[i - 1] # snapshot[i - 1]
    /\ ~cars[i - 1].crashed
    /\ ~cars[i - 1].reached_destination
    /\ should_stop_for_signal(cars[i - 1].x, cars[i - 1].y, cars[i - 1].angle,
                              tc.current_phase)
    /\ cars[i - 1].speed = 50

\* C4: Terminal states are frozen.  A Car.update call on a car whose crashed or
\* reached_destination flag is set changes no field of that car (nor anything
\* else but the loop index).
C4_TerminalFrozen ==
    [][ (/\ pc = "cars"
         /\ i <= Len(cars)
         /\ (cars[i].crashed \/ cars[i].reached_destination))
        => (cars' = cars /\ tc' = tc) ]_vars

\* C4 witness: inside the for loop, update has just been called on a car that
\* had already crashed when the loop began.
C4_Witness ==
    /\ pc = "cars"
    /\ i > 1
    /\ i - 1 <= Len(snapshot)
    /\ snapshot[i - 1].crashed
    /\ cars[i - 1] = snapshot[i - 1]

\* C5: Tick ordering.  When the controller's phase decision runs, its per-lane
\* vehicle counts are those aggregated from the active agents (the statistics
\* were refreshed first).
C5_StatsRefreshedBeforeDecision ==
    pc = "controller" =>
        tc.cars_per_lane = update_traffic_stats(tc, cars).cars_per_lane

\* C6: Empty-lane default.  In every controller state a lane whose vehicle
\* count is 0 has average speed 1.0.
C6_EmptyLaneDefault ==
    \A lane \in 1..4 :
        tc.cars_per_lane[lane] = 0 => RatEq(tc.avg_speed_per_lane[lane], One)

\* C7: Consistent snapshot.  When a non-terminal agent is about to be updated,
\* the position of every other agent is the one it had when the pass over the
\* agents began.
C7_ConsistentSnapshot ==
    (pc = "cars" /\ i <= Len(cars) /\ ~cars[i].crashed /\ ~cars[i].reached_destination)
        => \A j \in DOMAIN cars \ {i} :
              cars[j].x = snapshot[j].x /\ cars[j].y = snapshot[j].y

(***************************************************************************)
(* Properties of the stop decision.                                        *)
(***************************************************************************)
\* C8: Left-turn phases are red for through traffic.  Whenever the phase is 2
\* or 3, the stop decision is true for a car that is within the proximity
\* radius of the intersection centre and approaching it, whatever its
\* orientation.
C8_LeftTurnPhasesRed ==
    \A q \in Range(queries) :
        LET dx == get_nearest_intersection[1] - cars[1].x
            dy == get_nearest_intersection[2] - cars[1].y
        IN  (/\ q.phase \in {2, 3}
             /\ ~DistGT(dx, dy, car_signal_radius)
             /\ approaching_intersection(cars[1].angle % 360, dx, dy))
            => (q.car /\ q.controller)

\* C9: Signal compliance delegates to the controller.  For every position,
\* heading and phase, Car._should_stop_for_signal returns what
\* TrafficControl.should_stop returns for the car's x, y and angle.
C9_ComplianceDelegates ==
    \A q \in Range(queries) : q.car = q.controller

C12_ArrivedRemovedNextTick ==
    [][ (pc = "cars" /\ pc' = "clock") =>
            \A k \in DOMAIN cars :
                cars[k].reached_destination =>
                    \E j \in DOMAIN cars' : cars'[j] = cars[k] ]_vars

\* C12 as amended: a car whose reached_destination flag becomes true during an
\* iteration stays in the list until every car has been updated and is removed
\* at the end of that same iteration: the pass over the cars removes nothing,
\* the culling that follows leaves exactly the cars that have not arrived, in
\* their order, and outside the pass the list holds no arrived car.
C12_ArrivedCulledSameTick ==
    [][ /\ (pc = "cars" /\ pc' = "cars") => Len(cars') = Len(cars)
        /\ (pc = "cars" /\ pc' = "clock") =>
              /\ Len(cars') = Cardinality({k \in DOMAIN cars : ~cars[k].reached_destination})
              /\ \A k \in DOMAIN cars :
                    ~cars[k].reached_destination =>
                        cars'[Cardinality({j \in 1..k : ~cars[j].reached_destination})] = cars[k]
        /\ pc' # "cars" => \A k \in DOMAIN cars' : ~cars'[k].reached_destination ]_vars

\* C12 witness: the first iteration has culled a car that arrived in it (no key
\* was pressed and the list is shorter than the initial one).
C12_Witness ==
    pc = "clock" /\ ticks = 0 /\ keys = 0 /\ Len(cars) < 5

\* C15 as claimed: Phase reachability.  In every reachable controller state the
\* current phase is 0 or 1, never 2 or 3.
C15_OnlyTwoPhasesReached == tc.current_phase \in {0, 1}

\* C15 as amended: in every reachable controller state the current phase is one
\* of 0, 1, 2, 3 (and each of the four is reached: the policy samples from a
\* distribution over all four).
C15_PhaseInRange == tc.current_phase \in {0, 1, 2, 3}

\* C15 witness: the controller has left phase 2 for phase 3, both left-turn
\* phases having been in force.
C15_Witness ==
    /\ tc.current_phase = 3
    /\ tc.last_phase_change = 230
    /\ tc.wait_time_per_lane[1] = 2
    /\ tc.wait_time_per_lane[3] = 47

\* C16: Wait-time accrual.  In every TrafficControl.update call the wait time
\* of a lane that faces red under the phase in force at the end of the call
\* (North and South in phases 1, 2, 3; East and West in phases 0, 2, 3) grows
\* by exactly 0.1, whatever time has passed; the wait time of a lane that faces
\* green does not grow, and becomes 0 exactly when the call has switched the
\* phase to the one that gives the lane green.
C16_WaitAccrual ==
    [][ (pc = "controller" /\ pc' = "cars") =>
            \A lane \in 1..4 :
                LET green == IF lane \in {1, 2} THEN 0 ELSE 1
                    red == tc'.current_phase # green
                    switched == tc'.current_phase # tc.current_phase
                IN  tc'.wait_time_per_lane[lane] =
                        IF red THEN tc.wait_time_per_lane[lane] + 1
                        ELSE IF switched THEN 0
                        ELSE tc.wait_time_per_lane[lane] ]_vars

\* C16 witness: a switch to phase 1 has reset the wait time that East had
\* accrued during phase 0, while North has begun to wait.
C16_Witness ==
    /\ tc.current_phase = 1
    /\ tc.last_phase_change = 225
    /\ tc.wait_time_per_lane[3] = 0
    /\ tc.wait_time_per_lane[1] = 1

\* C17: Unchanged phase is a no-op on the timer.  When the rate limit has
\* expired at a call of TrafficControl.update: if the policy returns the current
\* phase, current_phase and last_phase_change keep their values and no wait
\* time is reset (each red lane's grows by 0.1), so the rate limit is still
\* expired and the policy is queried again by the next call; if it returns
\* another phase, current_phase becomes that phase and last_phase_change the
\* time of the call.  Time never runs backwards between calls.
C17_UnchangedPhaseKeepsTimer ==
    /\ (pc = "controller" /\ now - tc.last_phase_change >= 5) =>
          \A p \in {0, 1, 2, 3} :
              LET u == TrafficControl_update(tc, now, p)
              IN  IF p = tc.current_phase
                  THEN /\ u.current_phase = tc.current_phase
                       /\ u.last_phase_change = tc.last_phase_change
                       /\ now - u.last_phase_change >= 5
                       /\ \A lane \in 1..4 :
                             u.wait_time_per_lane[lane] >= tc.wait_time_per_lane[lane]
                  ELSE /\ u.current_phase = p
                       /\ u.last_phase_change = now
    /\ now >= tc.last_phase_change

\* C17 witness: an update has queried the policy five seconds after
\* construction, the policy has returned phase 0, and nothing but the wait
\* times of East and West has changed.
C17_Witness ==
    /\ pc = "cars"
    /\ queried
    /\ now = 5
    /\ tc.current_phase = 0
    /\ tc.last_phase_change = 0
    /\ tc.wait_time_per_lane = <<0, 0, 2, 2>>

\* C19: Crash ends the tick.  A Car.update call in which the collision check is
\* true leaves the car crashed with speed 0 and does not mark it arrived, even
\* where it stands within the arrival radius of its destination; in every state
\* no car is both crashed and arrived, and a crashed car has speed 0.
C19_CrashEndsTick ==
    \A k \in DOMAIN cars :
        cars[k].crashed => (cars[k].speed = 0 /\ ~cars[k].reached_destination)

\* C19 witness: a car has crashed within the arrival radius of its destination
\* (50), where the arrival check would have succeeded.
C19_Witness ==
    \E k \in DOMAIN cars :
        /\ cars[k].crashed
        /\ ~cars[k].reached_destination
        /\ cars[k].speed = 0
        /\ DistLT(cars[k].destination[1] - cars[k].x,
                  cars[k].destination[2] - cars[k].y, 5000)

(***************************************************************************)
(* Properties of the sensors.                                              *)
(***************************************************************************)
\* C11: Sensor range.  Each of the five values _get_sensor_data returns lies
\* in [0, 1], and a ray for which the wall ray-cast returns sensor_range and
\* no other car lies within 15 degrees of the ray and within sensor_range
\* yields exactly 1.0.
C11_SensorRange ==
    \A q \in Range(queries) : \A k \in 1..5 :
        LET reading == q.sensor_data[k]
            ray == cars[1].angle + sensor_angles[k]
            seen == \E n \in DOMAIN cars \ {1} :
                        /\ angle_diff_within(cars[n].x - cars[1].x,
                                             cars[n].y - cars[1].y, ray)
                        /\ ~DistGT(cars[n].x - cars[1].x, cars[n].y - cars[1].y, 15000)
        IN  /\ reading[2] > 0
            /\ 0 <= reading[1]
            /\ reading[1] <= reading[2]
            /\ (q.wall[k] = 15000 /\ ~seen) => reading[1] = reading[2]

\* C11 witness: one reading is exactly 1.0, one is cut short by a wall, and
\* one is cut short by the other car where the wall ray-cast saw nothing.
C11_Witness ==
    \E q \in Range(queries) :
        /\ \E k \in 1..5 : q.sensor_data[k][1] = q.sensor_data[k][2]
        /\ \E k \in 1..5 : q.wall[k] < 15000 /\ q.sensor_data[k][1] = q.wall[k]
        /\ \E k \in 1..5 : q.wall[k] = 15000 /\ q.sensor_data[k][1] < 15000

(***************************************************************************)
(* Properties of a car on its own.                                         *)
(***************************************************************************)
\* C13: Arrival liveness scenario.  A single car with the default pose and the
\* default destination, alone on the straight road, is never crashed and
\* eventually has arrived, for every policy.
C13_ArrivalLiveness ==
    [](~cars[1].crashed) /\ <>(cars[1].reached_destination)

\* The reversing policy ends in a crash behind the starting point.
C13_CrashedReversing ==
    cars[1].crashed /\ cars[1].x < 0 /\ ~cars[1].reached_destination

\* The forward policy arrives.
C13_ArrivedForward ==
    cars[1].reached_destination /\ ~cars[1].crashed

(***************************************************************************)
(* Properties of two cars head-on.                                         *)
(***************************************************************************)
EastBound(list) == CHOOSE n \in DOMAIN list : list[n].angle = 0
WestBound(list) == CHOOSE n \in DOMAIN list : list[n].angle = 180
\* How far the west-bound car is to the east of the east-bound one.
HeadOnGap(list) == list[WestBound(list)].x - list[EastBound(list)].x

\* C14: Head-on collision scenario.  Two cars moving toward each other along
\* one line never pass through each other: as long as neither is crashed each
\* is still on its own side and at least 10 apart, a car whose update brings it
\* within 10 of the other ends that update crashed, and every pass of the loop
\* over two cars that are both running brings them at least 1 closer, so that a
\* crash comes within a bounded number of ticks.
C14_HeadOnCollision ==
    /\ [](Len(cars) = 2)
    /\ []((\A n \in DOMAIN cars : ~cars[n].crashed) => HeadOnGap(cars) >= 1000)
    /\ [][(pc = "cars" /\ i <= Len(cars) /\ ~is_terminal(cars[i]))
            => (Abs(HeadOnGap(cars')) < 1000 => cars'[i].crashed)]_vars
    /\ [][(pc = "cars" /\ i > Len(cars) /\ \A n \in DOMAIN snapshot : ~is_terminal(snapshot[n]))
            => \/ \E n \in DOMAIN cars : cars[n].crashed
               \/ HeadOnGap(cars) <= HeadOnGap(snapshot) - 100]_vars

\* C14 witness: the car updated second has run into the other one, which is
\* still running, on the second tick, before the two had changed sides.
C14_Witness ==
    /\ Len(cars) = 2
    /\ cars[2].crashed
    /\ ~cars[1].crashed
    /\ HeadOnGap(cars) > 0
    /\ HeadOnGap(cars) < 1000
    /\ ticks = 1

(***************************************************************************)
(* Properties of Car.update in a small environment.                        *)
(***************************************************************************)
\* C18: Arrival zeroes speed.  A car whose arrival check has succeeded has
\* arrived = true and speed 0 at the end of that tick and ever after, whatever
\* the signal-compliance decision of the tick was.
C18_ArrivalZeroesSpeed ==
    \A n \in DOMAIN cars : cars[n].reached_destination => cars[n].speed = 0

\* What the car moved by along its heading in the step: the speed that the
\* steps before the arrival check had produced.
MovedBy ==
    (cars'[1].x - cars[1].x) * CosDeg(cars'[1].angle)
        + (cars'[1].y - cars[1].y) * SinDeg(cars'[1].angle)

Sign(v) == IF v > 0 THEN 1 ELSE IF v < 0 THEN -1 ELSE 0

\* C20: Signal compliance only slows a car down.  Whenever the compliance step
\* applies in a tick, the speed after it is not greater than the speed before
\* it and has the same sign, for every speed the earlier steps of the tick can
\* produce, negative ones included.
C20_ComplianceOnlySlows ==
    [][(/\ pc = "unit"
        /\ ~is_terminal(cars[1])
        /\ ~cars'[1].crashed
        /\ should_stop_for_signal(cars'[1].x, cars'[1].y, cars'[1].angle,
                                  tc.current_phase))
        => LET before == IF cars'[1].reached_destination THEN 0 ELSE MovedBy
           IN  /\ cars'[1].speed <= before
               /\ Sign(cars'[1].speed) = Sign(before)]_vars

(***************************************************************************)
(* Properties of the stop decision, continued.                             *)
(***************************************************************************)
\* The heading a carries a car at (x, y) toward the intersection centre along
\* its axis of travel.
HeadsTowardCentre(x, y, a) ==
    \/ a % 360 = 90 /\ y < get_nearest_intersection[2]
    \/ a % 360 = 270 /\ y > get_nearest_intersection[2]
    \/ a % 360 = 0 /\ x < get_nearest_intersection[1]
    \/ a % 360 = 180 /\ x > get_nearest_intersection[1]

\* C21: Only approaching agents stop.  The stop decision, of the car and of the
\* controller, is true only for a car within the proximity radius whose heading
\* carries it toward the intersection centre along its axis of travel; a car
\* heading away from the centre is never told to stop, in any phase.
C21_OnlyApproachingStop ==
    \A q \in Range(queries) :
        LET dx == get_nearest_intersection[1] - cars[1].x
            dy == get_nearest_intersection[2] - cars[1].y
        IN  /\ q.car => /\ ~DistGT(dx, dy, 8000)
                        /\ HeadsTowardCentre(cars[1].x, cars[1].y, cars[1].angle)
            /\ q.controller => /\ ~DistGT(dx, dy, 10000)
                               /\ HeadsTowardCentre(cars[1].x, cars[1].y, cars[1].angle)

(***************************************************************************)
(* Properties of the relative angle.                                       *)
(***************************************************************************)
\* C22 as claimed: Relative angle wrap.  For every destination bearing and
\* every heading, the relative angle of _get_angle_to_destination and the
\* result of normalize_angle lie in (-180, 180]: a difference of exactly 180
\* degrees maps to +180 and never to -180.
C22_WrapHalfOpenAbove ==
    \A q \in Range(queries) :
        /\ q.rel_angle > -180 /\ q.rel_angle <= 180
        /\ q.normalized > -180 /\ q.normalized <= 180

\* C22 as amended: for bearings and headings in whole degrees both results lie
\* in [-180, 180) and differ from what they wrap by a multiple of 360: a
\* difference of exactly 180 degrees maps to -180 and never to +180.
C22_WrapHalfOpenBelow ==
    \A q \in Range(queries) :
        /\ q.rel_angle >= -180 /\ q.rel_angle < 180
        /\ (q.rel_angle - (q.angle_to_dest - cars[1].angle)) % 360 = 0
        /\ q.normalized >= -180 /\ q.normalized < 180
        /\ (q.normalized - cars[1].angle) % 360 = 0

\* C22 witness: the destination lies dead behind a car whose heading is not
\* normalised, and the relative angle is -180.
C22_Witness ==
    \E q \in Range(queries) :
        /\ cars[1].angle = 540
        /\ q.angle_to_dest = 0
        /\ q.rel_angle = -180
        /\ q.normalized = -180

(***************************************************************************)
(* Properties of the stuck detector.                                       *)
(***************************************************************************)
\* C23: Stuck-escape timing.  A car whose displacement at every position sample
\* (one every 10 updates) is below 2 units has had its speed forced to half of
\* max_speed and its stuck counter reset by the first sample after it has been
\* stuck for more than max_stuck_time = 120 updates, which is the sample of
\* update 130; and the counter never exceeds max_stuck_time at the end of an
\* update.
C23_StuckEscapeTiming ==
    /\ cars[1].stuck_counter <= 120
    /\ ticks >= 130 => queries # <<>>

\* The push does come, at the 121st sample.
C23_PushedAtLast ==
    /\ queries # <<>>
    /\ queries[1].pushed_at = 1210
    /\ cars[1].stuck_counter = 0

(***************************************************************************)
(* Properties of the cull.                                                 *)
(***************************************************************************)
NotArrived(c) == ~c.reached_destination

\* C24: Cull correctness.  After the removal pass that ends an iteration the
\* list holds no arrived car and holds every car that was in it before the
\* pass and had not arrived, crashed cars included, in the same order and each
\* once, however many cars had arrived and wherever they stood in the list.
C24_CullCorrect ==
    [][(pc = "cars" /\ i > Len(cars)) =>
          /\ cars' = SelectSeq(cars, NotArrived)
          /\ \A n \in DOMAIN cars' : ~cars'[n].reached_destination
          /\ \A k \in DOMAIN cars :
                (cars[k].crashed /\ ~cars[k].reached_destination) =>
                    \E n \in DOMAIN cars' : cars'[n] = cars[k]]_vars

\* C24 witness: the first pass over the five cars of DrawsB is over: the
\* first, third and fifth car arrived and were removed, the second and fourth
\* crashed into each other and are all that is left.
C24_Witness ==
    /\ pc = "clock"
    /\ ticks = 0
    /\ keys = 0
    /\ Len(cars) = 2
    /\ cars[1].crashed /\ cars[1].angle = 90
    /\ cars[2].crashed /\ cars[2].angle = 90

(***************************************************************************)
(* Properties of the wait times.                                           *)
(***************************************************************************)
\* C25: Green lanes carry no wait time.  At the end of every
\* TrafficControl.update call, whatever phases the policy has chosen: in phase 0
\* the wait times of North and South are 0, in phase 1 those of East and West
\* are 0, and at all times North's equals South's and East's equals West's.
C25_GreenLanesNoWait ==
    /\ tc.current_phase = 0 =>
          tc.wait_time_per_lane[1] = 0 /\ tc.wait_time_per_lane[2] = 0
    /\ tc.current_phase = 1 =>
          tc.wait_time_per_lane[3] = 0 /\ tc.wait_time_per_lane[4] = 0
    /\ tc.wait_time_per_lane[1] = tc.wait_time_per_lane[2]
    /\ tc.wait_time_per_lane[3] = tc.wait_time_per_lane[4]

\* C25 witness: the controller went from phase 0 to a left-turn phase, in which
\* North and South waited, and back to phase 0, which cleared their wait times
\* while East and West kept waiting throughout.
C25_Witness ==
    /\ pc = "updated"
    /\ tc.current_phase = 0
    /\ tc.last_phase_change = 10
    /\ tc.wait_time_per_lane = <<0, 0, 3, 3>>

(***************************************************************************)
(* Properties of the direction of travel.                                  *)
(***************************************************************************)
\* C26: No reversal once moving forward.  A car that is not terminal before and
\* after an update and whose speed was at least 0.5 before it has a speed of at
\* least 0.5 after it, whatever the policy returned; and a car that was
\* reversing is still reversing unless the stuck push or signal compliance made
\* its speed positive.
C26_NoReversal ==
    [][(/\ pc = "cars"
        /\ i <= Len(cars)
        /\ ~cars[i].reached_destination /\ ~cars[i].crashed
        /\ ~cars'[i].reached_destination /\ ~cars'[i].crashed)
        => /\ cars[i].speed >= 50 => cars'[i].speed >= 50
           /\ cars[i].speed < 0 =>
                \/ cars'[i].speed < 0
                \/ cars'[i].stuck_counter < cars[i].stuck_counter
                \/ should_stop_for_signal(cars'[i].x, cars'[i].y, cars'[i].angle,
                                          tc.current_phase)]_vars

\* C26 witness: a car has been updated twice and is still running; it left its
\* first update at 0.5, the policy then braked, and the second update left it
\* at 0.5 again, still forward.
C26_Witness ==
    /\ pc = "clock"
    /\ ticks = 1
    /\ \E n \in DOMAIN cars :
          /\ ~cars[n].reached_destination /\ ~cars[n].crashed
          /\ cars[n].frames_since_position_check = 2
          /\ cars[n].speed = 50

(***************************************************************************)
(* Properties of two cars head-on, continued.                              *)
(***************************************************************************)
\* C27: Collisions are mutual.  When the pass over the cars is over, a car that
\* was running at the start of the pass and has been marked crashed in it for
\* being within 10 of the other car, itself running at the start of the pass
\* and not arrived since, has that other car marked crashed as well, whichever
\* of the two was updated first.
C27_CollisionsMutual ==
    (pc = "cars" /\ i > Len(cars) /\ Len(cars) = 2 /\ Len(snapshot) = 2) =>
        \A a, b \in DOMAIN cars :
            (/\ a # b
             /\ ~snapshot[a].crashed /\ ~snapshot[a].reached_destination
             /\ ~snapshot[b].crashed /\ ~snapshot[b].reached_destination
             /\ cars[a].crashed
             /\ ~is_colliding_with_wall(cars[a].x, cars[a].y)
             /\ ~cars[b].reached_destination)
            => cars[b].crashed

(***************************************************************************)
(* Properties of the spawn.                                                *)
(***************************************************************************)
\* C28: Spawn separation.  A car created with random_init and not yet updated
\* stands at least 10 units from every other car of the list, the five initial
\* cars being pairwise at least 10 apart; and no car that has been updated once
\* is crashed other than for having left the road.
C28_SpawnSeparation ==
    /\ \A a, b \in DOMAIN cars :
          (/\ a # b
           /\ cars[a].frames_since_position_check = 0
           /\ cars[a].speed = 0
           /\ ~cars[a].crashed /\ ~cars[a].reached_destination)
          => ~DistLT(cars[b].x - cars[a].x, cars[b].y - cars[a].y, 1000)
    /\ \A a \in DOMAIN cars :
          (cars[a].crashed /\ cars[a].frames_since_position_check = 1)
          => is_colliding_with_wall(cars[a].x, cars[a].y)

====
